---- MODULE Spec2Model ----
(***************************************************************************)
(* A model of enum_set (src/lib.rs): EnumSet<E>, a set of C-like enum      *)
(* variants held in one u32 bit mask, and Iter<E>, its iterator.           *)
(*                                                                         *)
(* A u32 is modelled by the set of the positions of its 1 bits, a subset   *)
(* of 0..31: TLC's integers are 32-bit signed and cannot hold 2^31, the    *)
(* mask of the variant with index 31. The bit operations of the code are   *)
(* the operators BitOr, BitAnd, BitXor, BitNot, Shl and Shr below.         *)
(***************************************************************************)
EXTENDS Integers, Sequences, FiniteSets, TLC

\* ------------------------------------------------------------------ bounds

\* The element type is an enum with explicit discriminants: NumLow variants
\* numbered from 0, the variant of the last supported index (31) and the
\* variant of the first unsupported one (32), as V32 of the test enum Bar.
NumLow == 2

\* The longest sequence handed to extend / from_iter.
MaxExtendLen == 2

\* The width of the bit mask: the number of variants an EnumSet supports.
Capacity == 32

\* ------------------------------------------------------------- u32 as bits

BitPositions == 0 .. (Capacity - 1)

Zero == {}

One == {0}

\* x << n for a shift n < 32: the bits that leave the word are dropped.
Shl(x, n) == {i + n : i \in x} \cap BitPositions

\* x >> 1
Shr(x) == {i - 1 : i \in x \ {0}}

BitOr(x, y) == x \cup y

BitAnd(x, y) == x \cap y

BitXor(x, y) == (x \ y) \cup (y \ x)

\* !x
BitNot(x) == BitPositions \ x

count_ones(x) == Cardinality(x)

\* --------------------------------------------------------------- the enum

Discriminants == (0 .. (NumLow - 1)) \cup {Capacity - 1, Capacity}

Variants == [disc : Discriminants]

\* fn to_u32(&self) -> u32 { *self as u32 }
to_u32(e) == e.disc

\* What transmute gives for a value that is no discriminant of the enum.
Invalid == [disc |-> -1]

\* unsafe fn from_u32(v: u32) -> E { mem::transmute(v) }: the outcomes. For
\* a value that is no discriminant the behaviour is undefined: any value.
from_u32(v) ==
    IF v \in Discriminants THEN {[disc |-> v]} ELSE Variants \cup {Invalid}

\* ------------------------------------------------------- the set, as code

\* bit without the assertion: the shift wraps at the width of the word.
bit_unchecked(e) == [panic |-> FALSE, val |-> Shl(One, to_u32(e) % Capacity)]

\* fn bit(e): the assertion fails (panic) for an index of 32 or more.
bit(e) ==
    LET value == to_u32(e) IN
    IF value < Capacity
    THEN [panic |-> FALSE, val |-> Shl(One, value)]
    ELSE [panic |-> TRUE, val |-> Zero]

new == Zero

len(bits) == count_ones(bits)

is_empty(bits) == bits = Zero

is_disjoint(self, other) == BitAnd(self, other) = Zero

is_superset(self, other) == BitAnd(self, other) = other

is_subset(self, other) == is_superset(other, self)

union(self, other) == BitOr(self, other)

intersection(self, other) == BitAnd(self, other)

\* difference with | for &.
difference_or_not(self, other) == BitOr(self, BitNot(other))

difference(self, other) == BitAnd(self, BitNot(other))

\* symmetric_difference with | for ^.
symmetric_difference_as_union(self, other) == BitOr(self, other)

symmetric_difference(self, other) == BitXor(self, other)

\* contains: [panic, ret]
contains(bits, value) ==
    LET m == bit(value) IN
    IF m.panic
    THEN [panic |-> TRUE, ret |-> FALSE]
    ELSE [panic |-> FALSE, ret |-> BitAnd(bits, m.val) # Zero]

\* insert returning whether the value was present.
insert_returns_present(bits, value) ==
    LET c == contains(bits, value)
        m == bit(value)
    IN  IF c.panic \/ m.panic
        THEN [panic |-> TRUE, bits |-> bits, ret |-> FALSE]
        ELSE [panic |-> FALSE, bits |-> BitOr(bits, m.val), ret |-> c.ret]

\* insert: [panic, bits, ret]; a panic in contains or in bit leaves self.bits
\* as it was.
insert(bits, value) ==
    LET c == contains(bits, value)
        m == bit(value)
    IN  IF c.panic \/ m.panic
        THEN [panic |-> TRUE, bits |-> bits, ret |-> FALSE]
        ELSE [panic |-> FALSE, bits |-> BitOr(bits, m.val), ret |-> ~c.ret]

\* remove with self.bits ^= bit(value).
remove_toggle(bits, value) ==
    LET c == contains(bits, value)
        m == bit(value)
    IN  IF c.panic \/ m.panic
        THEN [panic |-> TRUE, bits |-> bits, ret |-> FALSE]
        ELSE [panic |-> FALSE, bits |-> BitXor(bits, m.val), ret |-> c.ret]

\* remove: [panic, bits, ret]
remove(bits, value) ==
    LET c == contains(bits, value)
        m == bit(value)
    IN  IF c.panic \/ m.panic
        THEN [panic |-> TRUE, bits |-> bits, ret |-> FALSE]
        ELSE [panic |-> FALSE, bits |-> BitAnd(bits, BitNot(m.val)), ret |-> c.ret]

\* extend that checks every element before it inserts any.
RECURSIVE insert_all(_, _)
insert_all(bits, items) ==
    IF items = <<>> THEN bits
    ELSE insert_all(insert(bits, Head(items)).bits, Tail(items))

extend_atomic(bits, items) ==
    IF \E k \in 1 .. Len(items) : bit(items[k]).panic
    THEN [panic |-> TRUE, bits |-> bits]
    ELSE [panic |-> FALSE, bits |-> insert_all(bits, items)]

\* extend: insert each element in turn; the first panic ends the loop with
\* the elements before it inserted. [panic, bits]
RECURSIVE extend(_, _)
extend(bits, items) ==
    IF items = <<>>
    THEN [panic |-> FALSE, bits |-> bits]
    ELSE LET r == insert(bits, Head(items)) IN
         IF r.panic
         THEN [panic |-> TRUE, bits |-> r.bits]
         ELSE extend(r.bits, Tail(items))

\* from_iter: extend on a new set. [panic, bits]
from_iter(items) == extend(new, items)

\* ------------------------------------------------------------ the iterator

\* iter with the scan starting at index 1.
iter_index_one(bits) == [index |-> 1, bits |-> bits]

\* EnumSet::iter
iter(bits) == [index |-> 0, bits |-> bits]

\* A clone that starts its scan position again.
clone_reset_index(it) == [index |-> 0, bits |-> it.bits]

\* #[derive(Clone)] on Iter: a copy of both fields.
clone(it) == [index |-> it.index, bits |-> it.bits]

\* while (self.bits & 1) == 0 { self.index += 1; self.bits >>= 1; }
\* (entered with bits # 0 only; index never exceeds 32, so it cannot wrap)
RECURSIVE skip_zeros(_)
skip_zeros(it) ==
    IF BitAnd(it.bits, One) = Zero
    THEN skip_zeros([index |-> it.index + 1, bits |-> Shr(it.bits)])
    ELSE it

\* next without the index += 1 that follows the decoding.
next_stale_index(it) ==
    IF it.bits = Zero
    THEN [some |-> FALSE, idx |-> 0, it |-> it]
    ELSE LET s == skip_zeros(it) IN
         [some |-> TRUE, idx |-> s.index,
          it |-> [index |-> s.index, bits |-> Shr(s.bits)]]

\* Iter::next: [some, idx, it]: whether an element is returned, the index
\* handed to from_u32 for it, and the iterator afterwards.
next(it) ==
    IF it.bits = Zero
    THEN [some |-> FALSE, idx |-> 0, it |-> it]
    ELSE LET s == skip_zeros(it) IN
         [some |-> TRUE, idx |-> s.index,
          it |-> [index |-> s.index + 1, bits |-> Shr(s.bits)]]

\* size_hint with the default lower bound.
size_hint_lower_zero(it) == <<0, count_ones(it.bits)>>

\* Iter::size_hint: <<lower, upper>>
size_hint(it) ==
    LET exact == count_ones(it.bits) IN <<exact, exact>>

\* iter.collect(): the indices handed to from_u32 by next() until None.
RECURSIVE collect(_)
collect(it) ==
    LET r == next(it) IN
    IF r.some THEN <<r.idx>> \o collect(r.it) ELSE <<>>

\* ------------------------------------------------------------------- state

VARIABLES
    sets,      \* the bits field of each EnumSet of the program
    panicked,  \* an assertion has failed: the thread unwinds, nothing runs
    iters,     \* the Iter values of the program: [live, index, bits]
    observe,   \* which history is kept: "call", "origin" or "iter"
    last,      \* history: the last call, its arguments and what it returned
    ins,       \* history: per set, the variants inserted into it or into
               \* the sets it was derived from
    snap,      \* history: per iterator, the members it had to yield when it
               \* was made (by iter: the set; by clone: what was left)
    out,       \* history: per iterator, the elements next() has returned
    made       \* history: per iterator, how it was made (by, and for a clone
               \* how many elements the original had returned), what its
               \* last next() returned, and whether the set it was made
               \* from has changed before it returned None

vars == <<sets, panicked, iters, observe, last, ins, snap, out, made>>

SetNames == {"e1", "e2"}

IterNames == {"iter1", "iter2"}

NoSet == "-"

NoArg == [disc |-> -2]

NoIter == [live |-> FALSE, index |-> 0, bits |-> Zero]

NoCall ==
    [op |-> "-", target |-> NoSet, other |-> NoSet, dest |-> NoSet,
     arg |-> NoArg, items |-> <<>>, ret |-> FALSE, pre |-> [s \in SetNames |-> Zero],
     result |-> Zero, idxs |-> <<>>, elems |-> <<>>]

NoMade == [by |-> "-", at |-> 0, ret |-> "-", touched |-> FALSE]

\* The sequences handed to extend and from_iter.
ItemSeqs == UNION {[1 .. n -> Variants] : n \in 0 .. MaxExtendLen}

\* Those over the variants of the first index, of the last supported index
\* and of the first unsupported one.
EdgeVariants == {e \in Variants : to_u32(e) \in {0, Capacity - 1, Capacity}}

EdgeItemSeqs == UNION {[1 .. n -> EdgeVariants] : n \in 0 .. MaxExtendLen}

InitWith(o) ==
    /\ sets = [s \in SetNames |-> new]
    /\ panicked = FALSE
    /\ iters = [i \in IterNames |-> NoIter]
    /\ observe = o
    /\ last = NoCall
    /\ ins = [s \in SetNames |-> {}]
    /\ snap = [i \in IterNames |-> Zero]
    /\ out = [i \in IterNames |-> <<>>]
    /\ made = [i \in IterNames |-> NoMade]

\* The call history is kept when calls are observed.
Log(rec) == last' = IF observe = "call" THEN rec ELSE NoCall

Origin(f) == ins' = IF observe = "origin" THEN f ELSE ins

IterUnchanged == UNCHANGED <<iters, snap, out, made, observe>>

\* A call that leaves set s with bits: the iterators are not written; the
\* history notes a change of the iterated set under a live iterator.
Touch(s, bits) ==
    /\ made' = IF observe = "iter" /\ s = "e1" /\ bits # sets[s]
               THEN [i \in IterNames |->
                       IF iters[i].live /\ made[i].ret # "none"
                       THEN [made[i] EXCEPT !.touched = TRUE] ELSE made[i]]
               ELSE made
    /\ UNCHANGED <<iters, snap, out, observe>>

\* ----------------------------------------------------------------- actions

\* let mut s = EnumSet::new()
New(s) ==
    /\ ~panicked
    /\ sets' = [sets EXCEPT ![s] = new]
    /\ Log([NoCall EXCEPT !.op = "new", !.target = s, !.pre = sets])
    /\ Origin([ins EXCEPT ![s] = {}])
    /\ UNCHANGED panicked
    /\ IterUnchanged

\* s.clear()
Clear(s) ==
    /\ ~panicked
    /\ sets' = [sets EXCEPT ![s] = Zero]
    /\ Log([NoCall EXCEPT !.op = "clear", !.target = s, !.pre = sets])
    /\ UNCHANGED <<panicked, ins>>
    /\ Touch(s, Zero)

\* s.insert(e)
Insert(s, e) ==
    /\ ~panicked
    /\ LET r == insert(sets[s], e) IN
       /\ sets' = [sets EXCEPT ![s] = r.bits]
       /\ panicked' = r.panic
       /\ Log([NoCall EXCEPT !.op = "insert", !.target = s, !.arg = e,
                             !.ret = r.ret, !.pre = sets])
       /\ Origin(IF r.panic THEN ins ELSE [ins EXCEPT ![s] = @ \cup {e}])
    /\ Touch(s, insert(sets[s], e).bits)

\* s.remove(&e)
Remove(s, e) ==
    /\ ~panicked
    /\ LET r == remove(sets[s], e) IN
       /\ sets' = [sets EXCEPT ![s] = r.bits]
       /\ panicked' = r.panic
       /\ Log([NoCall EXCEPT !.op = "remove", !.target = s, !.arg = e,
                             !.ret = r.ret, !.pre = sets])
    /\ UNCHANGED ins
    /\ Touch(s, remove(sets[s], e).bits)

\* s.contains(&e)
Contains(s, e) ==
    /\ ~panicked
    /\ LET r == contains(sets[s], e) IN
       /\ panicked' = r.panic
       /\ Log([NoCall EXCEPT !.op = "contains", !.target = s, !.arg = e,
                             !.ret = r.ret, !.pre = sets])
    /\ UNCHANGED <<sets, ins>>
    /\ IterUnchanged

\* The four operations of set algebra (and the operators |, &, -, ^).
Algebra(op, self, other) ==
    CASE op = "union" -> union(self, other)
      [] op = "intersection" -> intersection(self, other)
      [] op = "difference" -> difference(self, other)
      [] op = "symmetric_difference" -> symmetric_difference(self, other)

AlgebraOps == {"union", "intersection", "difference", "symmetric_difference"}

\* let r = s.op(t) (d = NoSet), or s = s.op(t) (d = s)
Combine(op, s, t, d) ==
    /\ ~panicked
    /\ LET r == Algebra(op, sets[s], sets[t]) IN
       /\ sets' = IF d = NoSet THEN sets ELSE [sets EXCEPT ![d] = r]
       /\ Log([NoCall EXCEPT !.op = op, !.target = s, !.other = t, !.dest = d,
                             !.pre = sets, !.result = r])
       /\ Origin(IF d = NoSet THEN ins
                 ELSE [ins EXCEPT ![d] = ins[s] \cup ins[t]])
    /\ UNCHANGED panicked
    /\ IterUnchanged

\* The elements of items that extend inserts: those before the first one
\* whose insert panics.
RECURSIVE Accepted(_)
Accepted(items) ==
    IF items = <<>> \/ insert(Zero, Head(items)).panic
    THEN {}
    ELSE {Head(items)} \cup Accepted(Tail(items))

\* s.extend(items)
Extend(s, items) ==
    /\ ~panicked
    /\ LET r == extend(sets[s], items) IN
       /\ sets' = [sets EXCEPT ![s] = r.bits]
       /\ panicked' = r.panic
       /\ Log([NoCall EXCEPT !.op = "extend", !.target = s, !.items = items,
                             !.pre = sets, !.result = r.bits])
       /\ Origin([ins EXCEPT ![s] = @ \cup Accepted(items)])
    /\ IterUnchanged

\* d = items.collect::<EnumSet<_>>(): the set from_iter builds is assigned
\* only when from_iter returns; result is its local set, also at a panic.
FromIter(d, items) ==
    /\ ~panicked
    /\ LET r == from_iter(items) IN
       /\ sets' = IF r.panic THEN sets ELSE [sets EXCEPT ![d] = r.bits]
       /\ panicked' = r.panic
       /\ Log([NoCall EXCEPT !.op = "from_iter", !.dest = d, !.items = items,
                             !.pre = sets, !.result = r.bits])
       /\ Origin(IF r.panic THEN ins ELSE [ins EXCEPT ![d] = Accepted(items)])
    /\ IterUnchanged

\* What from_u32 gives for each index of idxs. One index that is no
\* discriminant makes the behaviour of the whole iteration undefined.
Decode(idxs) ==
    IF \A k \in 1 .. Len(idxs) : idxs[k] \in Discriminants
    THEN {[k \in 1 .. Len(idxs) |-> CHOOSE e \in from_u32(idxs[k]) : TRUE]}
    ELSE [1 .. Len(idxs) -> Variants \cup {Invalid}]

\* let elems: Vec<_> = s.iter().collect()
Collect(s) ==
    /\ ~panicked
    /\ LET idxs == collect(iter(sets[s])) IN
       \E elems \in Decode(idxs) :
          Log([NoCall EXCEPT !.op = "collect", !.target = s, !.pre = sets,
                             !.idxs = idxs, !.elems = elems])
    /\ UNCHANGED <<sets, panicked, ins>>
    /\ IterUnchanged

HistoryUnchanged == UNCHANGED <<last, ins, observe, panicked>>

\* let mut iter1 = e1.iter(); a clone of the iterator it replaces is dropped
Iterate ==
    /\ ~panicked
    /\ LET it == iter(sets["e1"]) IN
       iters' = [iters EXCEPT !["iter1"] = [live |-> TRUE, index |-> it.index, bits |-> it.bits],
                              !["iter2"] = NoIter]
    /\ snap' = [snap EXCEPT !["iter1"] = sets["e1"], !["iter2"] = Zero]
    /\ out' = [i \in IterNames |-> <<>>]
    /\ made' = [made EXCEPT !["iter1"] = [by |-> "iter", at |-> 0, ret |-> "-", touched |-> FALSE],
                            !["iter2"] = NoMade]
    /\ UNCHANGED sets
    /\ HistoryUnchanged

\* let mut iter2 = iter1.clone()
Clone ==
    /\ ~panicked
    /\ iters["iter1"].live
    /\ LET it == clone(iters["iter1"]) IN
       iters' = [iters EXCEPT !["iter2"] = [live |-> TRUE, index |-> it.index, bits |-> it.bits]]
    /\ snap' = [snap EXCEPT !["iter2"] =
                   snap["iter1"] \ {to_u32(out["iter1"][k]) : k \in 1 .. Len(out["iter1"])}]
    /\ out' = [out EXCEPT !["iter2"] = <<>>]
    /\ made' = [made EXCEPT !["iter2"] = [by |-> "clone", at |-> Len(out["iter1"]), ret |-> "-", touched |-> FALSE]]
    /\ UNCHANGED sets
    /\ HistoryUnchanged

\* i.next()
NextOf(i) ==
    /\ ~panicked
    /\ iters[i].live
    /\ LET r == next(iters[i]) IN
       /\ iters' = [iters EXCEPT ![i] = [live |-> TRUE, index |-> r.it.index, bits |-> r.it.bits]]
       /\ IF r.some
          THEN \E elem \in from_u32(r.idx) :
                  /\ out' = [out EXCEPT ![i] = Append(@, elem)]
                  /\ made' = [made EXCEPT ![i] = [@ EXCEPT !.ret = "some"]]
          ELSE /\ out' = out
               /\ made' = [made EXCEPT ![i] = [@ EXCEPT !.ret = "none"]]
    /\ UNCHANGED <<sets, snap>>
    /\ HistoryUnchanged

\* ---------------------------------------------------------- specifications

\* The calls on two sets, each call observed.
Init == InitWith("call")

Next ==
    \/ \E s \in SetNames : New(s)
    \/ \E s \in SetNames : Clear(s)
    \/ \E s \in SetNames, e \in Variants : Insert(s, e)
    \/ \E s \in SetNames, e \in Variants : Remove(s, e)
    \/ \E s \in SetNames, e \in Variants : Contains(s, e)
    \/ \E op \in AlgebraOps, s, t \in SetNames :
          \E d \in {s, NoSet} : Combine(op, s, t, d)
    \/ \E s \in SetNames : Collect(s)

Spec == Init /\ [][Next]_vars

\* Every way a set is made, the origin of its members observed.
InitOrigin == InitWith("origin")

NextOrigin ==
    \/ Next
    \/ \E s \in SetNames, items \in EdgeItemSeqs : Extend(s, items)
    \/ \E d \in SetNames, items \in EdgeItemSeqs : FromIter(d, items)

SpecOrigin == InitOrigin /\ [][NextOrigin]_vars

\* Bulk insertion into one set, each call observed.
NextExtend ==
    \/ \E e \in Variants : Insert("e1", e)
    \/ \E e \in Variants : Remove("e1", e)
    \/ \E items \in ItemSeqs : Extend("e1", items)
    \/ \E items \in ItemSeqs : FromIter("e1", items)

SpecExtend == Init /\ [][NextExtend]_vars

\* Iterators over a set that is mutated while they live.
InitIter == InitWith("iter")

NextIter ==
    \/ \E e \in Variants : Insert("e1", e)
    \/ \E e \in Variants : Remove("e1", e)
    \/ Clear("e1")
    \/ Iterate
    \/ Clone
    \/ \E i \in IterNames : NextOf(i)

SpecIter == InitIter /\ [][NextIter]_vars

\* ------------------------------------------------------------------ claims

\* The members of a bit mask, in ascending order of bit position.
RECURSIVE AscendingSeq(_)
AscendingSeq(S) ==
    IF S = {} THEN <<>>
    ELSE LET m == CHOOSE x \in S : \A y \in S : x <= y IN
         <<m>> \o AscendingSeq(S \ {m})

\* The indices of the elements iterator i has returned.
Yielded(i) == [k \in 1 .. Len(out[i]) |-> to_u32(out[i][k])]

IsPrefix(p, q) == Len(p) <= Len(q) /\ SubSeq(q, 1, Len(p)) = p

\* The index of the element of the last call.
LastIdx == to_u32(last.arg)

\* C1: an iterator made by iter() on a set returns exactly the members the
\* set had, each once, in strictly ascending order of bit position; once the
\* last member is returned every further next() returns None, and the
\* iterator of an empty set returns None at its first call.
C1_IterYieldsMembersAscending ==
    LET i == "iter1" IN
    made[i].by = "iter" =>
       /\ \A k \in 1 .. Len(out[i]) : out[i][k] \in Variants
       /\ \A k \in 1 .. Len(out[i]) - 1 : to_u32(out[i][k]) < to_u32(out[i][k + 1])
       /\ IsPrefix(Yielded(i), AscendingSeq(snap[i]))
       /\ Yielded(i) \o collect(iters[i]) = AscendingSeq(snap[i])
       /\ (made[i].ret = "none" =>
              /\ Yielded(i) = AscendingSeq(snap[i])
              /\ ~next(iters[i]).some)
       /\ (Yielded(i) = AscendingSeq(snap[i]) => ~next(iters[i]).some)
       /\ (made[i].ret = "some" => out[i] # <<>>)

C1_Witness ==
    /\ made["iter1"].by = "iter"
    /\ made["iter1"].ret = "none"
    /\ Yielded("iter1") = <<0, 1, Capacity - 1>>

\* C2: insert, remove and contains called with an element of index 32 or
\* more panic, and every set is then as it was before the call.
C2_OverflowPanicsUnchanged ==
    (last.op \in {"insert", "remove", "contains"} /\ LastIdx >= Capacity) =>
       /\ panicked
       /\ sets = last.pre

C2_Witness ==
    /\ last.op = "insert"
    /\ LastIdx = Capacity
    /\ panicked
    /\ sets[last.target] = {0, Capacity - 1}

\* C3: insert(x), x of an index below 32, returns true iff x was not a
\* member; afterwards x is a member and every other membership is as before;
\* an insert(x) right after it returns false and changes nothing.
C3_InsertEffect ==
    (last.op = "insert" /\ LastIdx < Capacity) =>
       LET t == last.target
           again == insert(sets[t], last.arg)
       IN  /\ ~panicked
           /\ last.ret = (LastIdx \notin last.pre[t])
           /\ contains(sets[t], last.arg) = [panic |-> FALSE, ret |-> TRUE]
           /\ LastIdx \in sets[t]
           /\ \A i \in BitPositions \ {LastIdx} : (i \in sets[t]) = (i \in last.pre[t])
           /\ \A e \in Variants \ {last.arg} :
                 contains(sets[t], e) = contains(last.pre[t], e)
           /\ \A s \in SetNames \ {t} : sets[s] = last.pre[s]
           /\ again = [panic |-> FALSE, bits |-> sets[t], ret |-> FALSE]

C3_Witness ==
    /\ last.op = "insert"
    /\ LastIdx = 1
    /\ last.ret
    /\ sets[last.target] = {0, 1, Capacity - 1}

\* C4: remove(x), x of an index below 32, returns true iff x was a member;
\* afterwards x is no member, every other membership is as before, and len()
\* is one less if x was a member and the same if not.
C4_RemoveEffect ==
    (last.op = "remove" /\ LastIdx < Capacity) =>
       LET t == last.target IN
       /\ ~panicked
       /\ last.ret = (LastIdx \in last.pre[t])
       /\ contains(sets[t], last.arg) = [panic |-> FALSE, ret |-> FALSE]
       /\ LastIdx \notin sets[t]
       /\ \A i \in BitPositions \ {LastIdx} : (i \in sets[t]) = (i \in last.pre[t])
       /\ \A e \in Variants \ {last.arg} :
             contains(sets[t], e) = contains(last.pre[t], e)
       /\ \A s \in SetNames \ {t} : sets[s] = last.pre[s]
       /\ len(last.pre[t]) - len(sets[t]) = (IF LastIdx \in last.pre[t] THEN 1 ELSE 0)

C4_Witness ==
    /\ last.op = "remove"
    /\ LastIdx = Capacity - 1
    /\ last.ret
    /\ len(sets[last.target]) = 2

\* C5: the size_hint of an iterator, new, partly consumed or exhausted, has
\* lower bound = upper bound = the number of elements the next() calls to
\* come return; for a new iterator that is the len() of the set, so len() is
\* the number of elements a full iteration returns.
C5_SizeHintExact ==
    \A i \in IterNames :
       iters[i].live =>
          LET n == Len(collect(iters[i])) IN
          /\ size_hint(iters[i]) = <<n, n>>
          /\ n + Len(out[i]) = len(snap[i])
          /\ (made[i].by = "iter" /\ out[i] = <<>> /\ made[i].ret = "-" =>
                size_hint(iters[i]) = <<len(snap[i]), len(snap[i])>>)
          /\ (made[i].ret = "none" =>
                Len(out[i]) = len(snap[i]) /\ size_hint(iters[i]) = <<0, 0>>)

C5_Witness ==
    /\ made["iter1"].by = "iter"
    /\ Len(out["iter1"]) = 1
    /\ size_hint(iters["iter1"]) = <<2, 2>>

\* C6: a clone made after k next() calls and the original each return, under
\* every interleaving of their next() calls, the members not yet returned
\* when the clone was made, in ascending order.
C6_CloneIndependent ==
    made["iter2"].by = "clone" =>
       LET rem == AscendingSeq(snap["iter2"])
           y1 == Yielded("iter1")
           since == SubSeq(y1, made["iter2"].at + 1, Len(y1))
       IN  /\ IsPrefix(Yielded("iter2"), rem)
           /\ IsPrefix(since, rem)
           /\ Yielded("iter2") \o collect(iters["iter2"]) = rem
           /\ since \o collect(iters["iter1"]) = rem
           /\ \A k \in 1 .. Len(out["iter2"]) : out["iter2"][k] \in Variants
           /\ (made["iter2"].ret = "none" => Yielded("iter2") = rem)
           /\ (made["iter1"].ret = "none" => since = rem)

C6_Witness ==
    /\ made["iter2"].by = "clone"
    /\ made["iter2"].at = 1
    /\ Len(out["iter1"]) = 2
    /\ made["iter2"].ret = "none"
    /\ Yielded("iter2") = <<1, Capacity - 1>>

\* C7: A ^ B = (A - B) | (B - A) = (A | B) - (A & B), the elements that are
\* members of exactly one of A and B; computing it leaves A and B as they
\* were.
C7_SymmetricDifferenceIdentities ==
    /\ \A s, t \in SetNames :
          LET A == sets[s]
              B == sets[t]
              X == symmetric_difference(A, B)
          IN  /\ X = union(difference(A, B), difference(B, A))
              /\ X = difference(union(A, B), intersection(A, B))
              /\ X = {i \in BitPositions : (i \in A) # (i \in B)}
              /\ \A e \in Variants :
                    ~bit(e).panic =>
                       contains(X, e).ret = (contains(A, e).ret # contains(B, e).ret)
    /\ (last.op = "symmetric_difference" =>
          LET A == last.pre[last.target]
              B == last.pre[last.other]
          IN  /\ last.result = {i \in BitPositions : (i \in A) # (i \in B)}
              /\ last.result = union(difference(A, B), difference(B, A))
              /\ last.result = difference(union(A, B), intersection(A, B))
              /\ \A s \in SetNames \ {last.dest} : sets[s] = last.pre[s]
              /\ ~panicked)

C7_Witness ==
    /\ last.op = "symmetric_difference"
    /\ last.dest = NoSet
    /\ last.pre[last.target] = {0, Capacity - 1}
    /\ last.pre[last.other] = {1, Capacity - 1}
    /\ last.result = {0, 1}

\* C8: an iterator is a snapshot: whatever insert, remove and clear do to
\* the set between its next() calls, it returns the members the set had
\* when the iterator was made, in ascending order.
C8_IterIsSnapshot ==
    \A i \in IterNames :
       (iters[i].live /\ made[i].touched) =>
          /\ IsPrefix(Yielded(i), AscendingSeq(snap[i]))
          /\ Yielded(i) \o collect(iters[i]) = AscendingSeq(snap[i])
          /\ (made[i].ret = "none" => Yielded(i) = AscendingSeq(snap[i]))

C8_Witness ==
    /\ made["iter1"].by = "iter"
    /\ made["iter1"].touched
    /\ made["iter1"].ret = "none"
    /\ Yielded("iter1") = <<0, Capacity - 1>>
    /\ sets["e1"] = {1}

\* C9: every bit of every set made from new() by insert, remove, clear,
\* extend, from_iter and the set algebra is the index, below 32, of an
\* element inserted before into that set or into a set it was derived from;
\* so is every index an iterator of the set hands to from_u32.
C9_BitsAreInsertedIndices ==
    \A s \in SetNames :
       /\ \A i \in sets[s] :
             /\ i < Capacity
             /\ \E e \in ins[s] : to_u32(e) = i
       /\ LET idxs == collect(iter(sets[s])) IN
          \A k \in 1 .. Len(idxs) :
             /\ idxs[k] <= Capacity - 1
             /\ \E e \in ins[s] : to_u32(e) = idxs[k]

C9_Witness ==
    /\ sets["e1"] = {0, Capacity - 1}
    /\ sets["e2"] = {1}
    /\ {to_u32(e) : e \in ins["e1"]} = {0, 1, Capacity - 1}
    /\ ~panicked

\* The place in items of the first element whose index is 32 or more.
FirstBad(items) ==
    CHOOSE k \in 1 .. Len(items) :
       /\ to_u32(items[k]) >= Capacity
       /\ \A j \in 1 .. k - 1 : to_u32(items[j]) < Capacity

HasBad(items) == \E k \in 1 .. Len(items) : to_u32(items[k]) >= Capacity

BulkStart == IF last.op = "extend" THEN last.pre[last.target] ELSE new

\* C10, as claimed: extend and from_iter over a sequence that holds an
\* element of index 32 or more panic with the target's bit mask as it was
\* before the call.
C10_BulkInsertAtomic ==
    (last.op \in {"extend", "from_iter"} /\ HasBad(last.items)) =>
       /\ panicked
       /\ last.result = BulkStart

\* C10, amended: extend and from_iter over such a sequence panic at its
\* first element of index 32 or more; that insert changes nothing, and the
\* target's bit mask is then the one before the call with the elements
\* that precede that element inserted.
C10_BulkInsertKeepsPrefix ==
    (last.op \in {"extend", "from_iter"} /\ HasBad(last.items)) =>
       LET k == FirstBad(last.items) IN
       /\ panicked
       /\ last.result = BulkStart \cup {to_u32(last.items[j]) : j \in 1 .. k - 1}
       /\ (last.op = "extend" =>
              sets = [last.pre EXCEPT ![last.target] = last.result])
       /\ (last.op = "from_iter" => sets = last.pre)

C10_Witness ==
    /\ last.op = "extend"
    /\ panicked
    /\ Len(last.items) = 2
    /\ last.pre["e1"] = {1}
    /\ sets["e1"] = {1, Capacity - 1}

====
